---- MODULE Spec2Model ----
(***************************************************************************)
(* Resolution tracker (src/app.py): the resolution / milestone data model  *)
(* and the operations on the in-memory collection of resolutions.          *)
(*                                                                         *)
(* A resolution is a record (a Python dict) with the keys id, title,       *)
(* start_date, target_date, reason, importance, milestones, achieved; a    *)
(* milestone is a record with the keys description, completed, note.  The  *)
(* collection is a sequence (a Python list).  List positions are 1-based   *)
(* here and 0-based in the source; every index argument of an operation    *)
(* keeps the source's 0-based (and possibly negative) value.               *)
(*                                                                         *)
(* Values are modelled, not object identity: every patch handed to         *)
(* update_resolution is a freshly built value, so no two resolutions share *)
(* one milestone list.                                                     *)
(***************************************************************************)
EXTENDS Integers, Sequences, FiniteSets, TLC

\* ---------------------------------------------------------------- bounds
\* Longest run of operations explored from the empty collection.
MaxOps == 5
\* Longest collection drawn as the input of get_top_resolutions.
MaxTop == 3
\* Longest collection drawn as the content of the store.
MaxStore == 2

\* ------------------------------------------------------ program constants
\* The create form has four milestone inputs, m1..m4.
NumMilestones == 4
\* The importance slider runs from 1 to 5 and starts at 3.
MinImportance == 1
MaxImportance == 5

\* Python's None.
None == "None"
\* None where the program otherwise holds a resolution id or a milestone index.
NoId == 0
NoIndex == -1

VARIABLES
    resolutions,  \* st.session_state.resolutions: the collection
    nextId,       \* the next fresh identifier uuid.uuid4() hands out
    pre,          \* the collection as it was when the last operation was called
    call,         \* the last operation called, with its arguments
    outcome,      \* how it ended: "ok", "invalid" (st.error shown), "fault" (IndexError)
    ret,          \* what it returned, for the operations that return no collection
    nops,         \* the number of operations called so far
    file,         \* the content of DATA_FILE
    written,      \* the collection whose complete json.dump the file holds, if any
    session,      \* st.session_state: authentication, page, selection, flags
    asked         \* the resolution on whose page "Delete Resolution" was last clicked

vars == <<resolutions, nextId, pre, call, outcome, ret, nops, file, written, session, asked>>

\* ------------------------------------------------------- Python primitives

\* A Python list built element by element: the sequence holding f[1] to
\* f[Len(f)] as a tuple, which is the form the sequence operators and the
\* nested EXCEPT of the operations below work on.
List(f) == SubSeq(f, 1, Len(f))

\* Whether list[idx] exists for a list of length len: Python accepts
\* -len <= idx < len and raises IndexError otherwise.
InRange(len, idx) == -len <= idx /\ idx < len

\* The 1-based position Python's list[idx] denotes, negative idx counting
\* from the end.
Pos(len, idx) == IF idx >= 0 THEN idx + 1 ELSE len + idx + 1

\* list[:n]: the first n elements (all of them when n exceeds the length);
\* a negative n drops the last -n elements.
SlicePrefix(s, n) ==
    LET stop == IF n >= 0
                THEN (IF n < Len(s) THEN n ELSE Len(s))
                ELSE (IF Len(s) + n > 0 THEN Len(s) + n ELSE 0)
    IN  SubSeq(s, 1, stop)

\* str(n) for a decimal digit, and zero-padded fields as date.__str__ prints them.
Digit(n) == <<"0", "1", "2", "3", "4", "5", "6", "7", "8", "9">>[n + 1]
Pad2(n) == Digit((n \div 10) % 10) \o Digit(n % 10)
Pad4(n) == Pad2(n \div 100) \o Pad2(n % 100)

\* str(d) of a datetime.date d = <<year, month, day>>: ISO "YYYY-MM-DD".
str_date(d) == Pad4(d[1]) \o "-" \o Pad2(d[2]) \o "-" \o Pad2(d[3])

\* Python truthiness of a str: the empty string is falsy.
Truthy(s) == s # ""

\* The position of the first resolution whose id is rid, 0 when there is none:
\* the "for res in resolutions: if res["id"] == resolution_id" scan.
FirstWithId(rs, rid) ==
    IF \E i \in DOMAIN rs : rs[i].id = rid
    THEN CHOOSE i \in DOMAIN rs :
            /\ rs[i].id = rid
            /\ \A j \in DOMAIN rs : rs[j].id = rid => i <= j
    ELSE 0

\* --------------------------------------------------- resolution operations

\* create_resolution building the milestones back to front.
create_resolution_reversed(uid, title, start_date, target_date, reason, importance, milestone_descriptions) ==
    [ id          |-> uid,
      title       |-> title,
      start_date  |-> str_date(start_date),
      target_date |-> str_date(target_date),
      reason      |-> reason,
      importance  |-> importance,
      milestones  |-> List([ i \in DOMAIN milestone_descriptions |->
                          [ description |-> milestone_descriptions[Len(milestone_descriptions) + 1 - i],
                            completed   |-> FALSE,
                            note        |-> "" ] ]),
      achieved    |-> FALSE ]

create_resolution(uid, title, start_date, target_date, reason, importance, milestone_descriptions) ==
    [ id          |-> uid,
      title       |-> title,
      start_date  |-> str_date(start_date),
      target_date |-> str_date(target_date),
      reason      |-> reason,
      importance  |-> importance,
      milestones  |-> List([ i \in DOMAIN milestone_descriptions |->
                          [ description |-> milestone_descriptions[i],
                            completed   |-> FALSE,
                            note        |-> "" ] ]),
      achieved    |-> FALSE ]

\* update_resolution without the guard on the "id" key.
update_resolution_any_key(rs, resolution_id, updated_data) ==
    LET i == FirstWithId(rs, resolution_id) IN
    IF i = 0 THEN rs
    ELSE LET keys == DOMAIN updated_data
             res  == [ key \in DOMAIN rs[i] \cup keys |->
                         IF key \in keys THEN updated_data[key] ELSE rs[i][key] ]
         IN  [rs EXCEPT ![i] = res]

\* Overwrites, in the first resolution whose id is resolution_id, every key of
\* updated_data except "id"; a key the resolution lacks is added.
update_resolution(rs, resolution_id, updated_data) ==
    LET i == FirstWithId(rs, resolution_id) IN
    IF i = 0 THEN rs
    ELSE LET keys == DOMAIN updated_data \ {"id"}
             res  == [ key \in DOMAIN rs[i] \cup keys |->
                         IF key \in keys THEN updated_data[key] ELSE rs[i][key] ]
         IN  [rs EXCEPT ![i] = res]

\* delete_resolution with the comparison turned round: keeps the matches.
RECURSIVE delete_resolution_keeps_match(_, _)
delete_resolution_keeps_match(rs, resolution_id) ==
    IF rs = <<>> THEN <<>>
    ELSE IF Head(rs).id = resolution_id
         THEN <<Head(rs)>> \o delete_resolution_keeps_match(Tail(rs), resolution_id)
         ELSE delete_resolution_keeps_match(Tail(rs), resolution_id)

\* [res for res in resolutions if res["id"] != resolution_id]
RECURSIVE delete_resolution(_, _)
delete_resolution(rs, resolution_id) ==
    IF rs = <<>> THEN <<>>
    ELSE IF Head(rs).id # resolution_id
         THEN <<Head(rs)>> \o delete_resolution(Tail(rs), resolution_id)
         ELSE delete_resolution(Tail(rs), resolution_id)

get_resolution_by_id(rs, resolution_id) ==
    LET i == FirstWithId(rs, resolution_id) IN
    IF i = 0 THEN None ELSE rs[i]

\* all(m["completed"] for m in resolution["milestones"])
check_resolution_achieved(resolution) ==
    \A i \in DOMAIN resolution.milestones : resolution.milestones[i].completed

\* The result of an operation that may raise: the collection it leaves and
\* whether it raised IndexError.
Returned(rs) == [coll |-> rs, fault |-> FALSE]
Raised(rs) == [coll |-> rs, fault |-> TRUE]

\* mark_milestone_complete that only ever raises the achieved flag.
mark_milestone_complete_sticky(rs, resolution_id, milestone_index, completed) ==
    LET i == FirstWithId(rs, resolution_id) IN
    IF i = 0 THEN Returned(rs)
    ELSE LET ms == rs[i].milestones IN
         IF ~InRange(Len(ms), milestone_index) THEN Raised(rs)
         ELSE LET p      == Pos(Len(ms), milestone_index)
                  marked == [rs[i] EXCEPT !.milestones[p].completed = completed]
                  res    == IF check_resolution_achieved(marked)
                            THEN [marked EXCEPT !.achieved = TRUE]
                            ELSE marked
              IN  Returned([rs EXCEPT ![i] = res])

mark_milestone_complete(rs, resolution_id, milestone_index, completed) ==
    LET i == FirstWithId(rs, resolution_id) IN
    IF i = 0 THEN Returned(rs)
    ELSE LET ms == rs[i].milestones IN
         IF ~InRange(Len(ms), milestone_index) THEN Raised(rs)
         ELSE LET p      == Pos(Len(ms), milestone_index)
                  marked == [rs[i] EXCEPT !.milestones[p].completed = completed]
                  res    == [marked EXCEPT !.achieved = check_resolution_achieved(marked)]
              IN  Returned([rs EXCEPT ![i] = res])

\* add_milestone_note reading the index before it looks for the resolution.
add_milestone_note_index_first(rs, resolution_id, milestone_index, note) ==
    LET i == FirstWithId(rs, resolution_id) IN
    IF ~InRange(NumMilestones, milestone_index) THEN Raised(rs)
    ELSE IF i = 0 THEN Returned(rs)
    ELSE LET ms == rs[i].milestones IN
         IF ~InRange(Len(ms), milestone_index) THEN Raised(rs)
         ELSE LET p == Pos(Len(ms), milestone_index)
              IN  Returned([rs EXCEPT ![i].milestones[p].note = note])

add_milestone_note(rs, resolution_id, milestone_index, note) ==
    LET i == FirstWithId(rs, resolution_id) IN
    IF i = 0 THEN Returned(rs)
    ELSE LET ms == rs[i].milestones IN
         IF ~InRange(Len(ms), milestone_index) THEN Raised(rs)
         ELSE LET p == Pos(Len(ms), milestone_index)
              IN  Returned([rs EXCEPT ![i].milestones[p].note = note])

\* ------------------------------------------------- calculation functions

\* InsertDescending stepping over strictly greater keys only: x overtakes
\* the elements of its own importance.
RECURSIVE InsertDescending_strict(_, _)
InsertDescending_strict(sorted, x) ==
    IF sorted = <<>> THEN <<x>>
    ELSE IF Head(sorted).importance > x.importance
         THEN <<Head(sorted)>> \o InsertDescending_strict(Tail(sorted), x)
         ELSE <<x>> \o sorted

\* x placed in a list sorted by descending importance, behind every element
\* whose importance is not smaller: equal keys keep their arrival order.
RECURSIVE InsertDescending(_, _)
InsertDescending(sorted, x) ==
    IF sorted = <<>> THEN <<x>>
    ELSE IF Head(sorted).importance >= x.importance
         THEN <<Head(sorted)>> \o InsertDescending(Tail(sorted), x)
         ELSE <<x>> \o sorted

\* sorted(resolutions, key=lambda x: x["importance"], reverse=True): a new
\* list; Python's sort is stable, also under reverse=True.
RECURSIVE SortedByImportance(_)
SortedByImportance(rs) ==
    IF rs = <<>> THEN <<>>
    ELSE InsertDescending(SortedByImportance(SubSeq(rs, 1, Len(rs) - 1)), rs[Len(rs)])

get_top_resolutions(rs, n) == SlicePrefix(SortedByImportance(rs), n)

\* ------------------------------------------------------------------ store

\* The text of the data file is a sequence of JSON tokens: the punctuation
\* "[", "]", "{", "}", ",", ":", the literals "true", "false", "null", a
\* string ("str") or a number ("num") with its value, and "bad" for a fragment
\* no JSON token starts with (a bare word, a string cut before its closing
\* quote, a literal cut short).  White space and indentation are dropped.
Tok(t) == [t |-> t, v |-> None]
TokStr(v) == [t |-> "str", v |-> v]
TokNum(v) == [t |-> "num", v |-> v]
TokBool(v) == IF v THEN Tok("true") ELSE Tok("false")

\* The keys of a resolution and of a milestone in the order the dicts are
\* built, which is the order json.dump writes them in.
KeyOrder ==
    << "id", "title", "start_date", "target_date", "reason", "importance",
       "milestones", "achieved", "description", "completed", "note" >>
\* The keys that hold a bool, an int, a list of dicts; the others hold a str
\* (the id is the str of a uuid).
BoolKeys == {"achieved", "completed"}
IntKeys == {"importance"}
ListKeys == {"milestones"}

\* json.dump of a list of dicts: "[" d1 "," d2 ... "]", each dict as
\* "{" "key" ":" value "," ... "}".
RECURSIVE DumpList(_), DumpItems(_), DumpDict(_), DumpPairs(_, _), DumpField(_, _)
DumpField(key, v) ==
    IF key \in ListKeys THEN DumpList(v)
    ELSE IF key \in BoolKeys THEN <<TokBool(v)>>
    ELSE IF key \in IntKeys THEN <<TokNum(v)>>
    ELSE <<TokStr(v)>>
DumpPairs(d, keys) ==
    IF keys = <<>> THEN <<>>
    ELSE <<TokStr(Head(keys)), Tok(":")>> \o DumpField(Head(keys), d[Head(keys)])
         \o (IF Tail(keys) = <<>> THEN <<>> ELSE <<Tok(",")>> \o DumpPairs(d, Tail(keys)))
DumpDict(d) ==
    <<Tok("{")>> \o DumpPairs(d, SelectSeq(KeyOrder, LAMBDA k : k \in DOMAIN d)) \o <<Tok("}")>>
DumpItems(xs) ==
    IF xs = <<>> THEN <<>>
    ELSE DumpDict(Head(xs))
         \o (IF Tail(xs) = <<>> THEN <<>> ELSE <<Tok(",")>> \o DumpItems(Tail(xs)))
DumpList(xs) == <<Tok("[")>> \o DumpItems(xs) \o <<Tok("]")>>

\* The outcome of parsing a value that starts at token i: whether one was
\* found, its Python type and value, and the position behind it.
Parsed(kind, v, next) == [ok |-> TRUE, kind |-> kind, val |-> v, next |-> next]
NotParsed == [ok |-> FALSE, kind |-> "error", val |-> None, next |-> 0]

\* json's decoder: a value is an array, an object, a string, a number or a
\* literal; an array is "[" "]" or "[" value ("," value)* "]"; an object is
\* "{" "}" or "{" string ":" value ("," string ":" value)* "}", a repeated
\* key keeping its last value.
RECURSIVE ParseValue(_, _), ParseElements(_, _, _), ParseMembers(_, _, _)
ParseValue(toks, i) ==
    IF i > Len(toks) THEN NotParsed
    ELSE LET t == toks[i].t IN
         IF t = "[" THEN
            IF i + 1 <= Len(toks) /\ toks[i + 1].t = "]"
            THEN Parsed("list", <<>>, i + 2)
            ELSE ParseElements(toks, i + 1, <<>>)
         ELSE IF t = "{" THEN
            IF i + 1 <= Len(toks) /\ toks[i + 1].t = "}"
            THEN Parsed("dict", <<>>, i + 2)
            ELSE ParseMembers(toks, i + 1, <<>>)
         ELSE IF t = "str" THEN Parsed("str", toks[i].v, i + 1)
         ELSE IF t = "num" THEN Parsed("int", toks[i].v, i + 1)
         ELSE IF t = "true" THEN Parsed("bool", TRUE, i + 1)
         ELSE IF t = "false" THEN Parsed("bool", FALSE, i + 1)
         ELSE IF t = "null" THEN Parsed("None", None, i + 1)
         ELSE NotParsed
ParseElements(toks, i, acc) ==
    LET e == ParseValue(toks, i) IN
    IF ~e.ok \/ e.next > Len(toks) THEN NotParsed
    ELSE IF toks[e.next].t = "," THEN ParseElements(toks, e.next + 1, Append(acc, e.val))
    ELSE IF toks[e.next].t = "]" THEN Parsed("list", Append(acc, e.val), e.next + 1)
    ELSE NotParsed
ParseMembers(toks, i, acc) ==
    IF i + 1 > Len(toks) \/ toks[i].t # "str" \/ toks[i + 1].t # ":" THEN NotParsed
    ELSE LET key == toks[i].v
             e   == ParseValue(toks, i + 2)
             d   == [k \in DOMAIN acc \cup {key} |-> IF k = key THEN e.val ELSE acc[k]]
         IN  IF ~e.ok \/ e.next > Len(toks) THEN NotParsed
             ELSE IF toks[e.next].t = "," THEN ParseMembers(toks, e.next + 1, d)
             ELSE IF toks[e.next].t = "}" THEN Parsed("dict", d, e.next + 1)
             ELSE NotParsed

\* json.load: one value and nothing behind it, JSONDecodeError otherwise.
json_load(toks) ==
    LET r == ParseValue(toks, 1) IN
    IF r.ok /\ r.next = Len(toks) + 1 THEN r ELSE NotParsed

\* Python truthiness of a decoded value: None, False, 0, "", [] and {} are falsy.
TruthyValue(r) ==
    IF r.kind \in {"list", "dict"} THEN r.val # <<>>
    ELSE IF r.kind = "str" THEN r.val # ""
    ELSE IF r.kind = "int" THEN r.val # 0
    ELSE IF r.kind = "bool" THEN r.val
    ELSE FALSE

\* The data file: absent, text (its tokens), or bytes that are no text in
\* the encoding open() reads with.
Absent == [kind |-> "absent", toks |-> <<>>]
Text(toks) == [kind |-> "text", toks |-> toks]
Bytes == [kind |-> "bytes", toks |-> <<>>]

\* What load_data gives its caller: the value returned, or the exception it
\* lets through.
Loaded(v) == [data |-> v, raised |-> "none"]
LoadRaised(e) == [data |-> None, raised |-> e]

\* load_data on the file f.  decodable: whether the locale's encoding can
\* decode the file's bytes (UTF-8 rejects some byte sequences, Latin-1 none);
\* the read raises UnicodeDecodeError when it cannot, which is neither of
\* the exceptions caught.
load_data(f, decodable) ==
    IF f.kind = "absent" THEN Loaded(<<>>)
    ELSE IF f.kind = "bytes" /\ ~decodable THEN LoadRaised("UnicodeDecodeError")
    ELSE LET r == json_load(IF f.kind = "bytes" THEN <<Tok("bad")>> ELSE f.toks) IN
         IF ~r.ok THEN Loaded(<<>>)
         ELSE IF TruthyValue(r) THEN Loaded(r.val) ELSE Loaded(<<>>)

\* save_data that leaves out the last resolution.
save_data_drops_last(rs) == Text(DumpList(SubSeq(rs, 1, Len(rs) - 1)))

\* save_data run to its end: the file holds json.dump(resolutions).
save_data(rs) == Text(DumpList(rs))

\* calculate_total_stars: the completed milestones of the whole collection.
RECURSIVE CountCompleted(_)
CountCompleted(ms) ==
    IF ms = <<>> THEN 0
    ELSE (IF Head(ms).completed THEN 1 ELSE 0) + CountCompleted(Tail(ms))
RECURSIVE calculate_total_stars(_)
calculate_total_stars(rs) ==
    IF rs = <<>> THEN 0
    ELSE CountCompleted(Head(rs).milestones) + calculate_total_stars(Tail(rs))

\* ------------------------------------------------------------------ inputs

FormTitles == {"", "Run"}
FormDate == <<2026, 1, 5>>
FormTarget == <<2026, 12, 31>>
FormReason == "health"
\* What the four milestone inputs may hold when the form is submitted.
FormMilestones == { <<"A", "B", "C", "D">>, <<"A", "", "C", "D">>, <<"", "", "", "">> }
\* Identifiers handed to the operations: 0 is never issued.
Ids == 0 .. 2
\* Milestone indexes handed to the operations.
Indexes == -1 .. NumMilestones
\* Notes handed to add_milestone_note.
Notes == {"tip"}
\* A milestone list a caller may build for a patch.
ThreeMilestones ==
    List([ i \in 1 .. 3 |-> [description |-> "X", completed |-> TRUE, note |-> ""] ])
\* The updated_data dicts handed to update_resolution.
Patches ==
    << [importance |-> MinImportance],
       [id |-> 0, title |-> "Swim"],
       [achieved |-> TRUE],
       [milestones |-> ThreeMilestones] >>
\* The n handed to get_top_resolutions.
TopCounts == -1 .. MaxTop + 1

\* ------------------------------------------------------------------ actions

NoCall == [op |-> "none", id |-> 0, idx |-> 0, arg |-> None]

\* The file holds the complete dump of the collection rs / of none.
Holds(rs) == [held |-> TRUE, coll |-> rs]
HoldsNothing == [held |-> FALSE, coll |-> <<>>]

\* init_session_state; confirm_delete is not set there and reads as False
\* through st.session_state.get("confirm_delete", False).
InitialSession ==
    [ authenticated            |-> FALSE,
      page                     |-> "login",
      selected_resolution_id   |-> NoId,
      selected_milestone_index |-> NoIndex,
      edit_mode                |-> FALSE,
      confirm_delete           |-> FALSE ]

navigate_to(s, page, resolution_id, milestone_index) ==
    [ s EXCEPT !.page = page,
               !.selected_resolution_id = IF resolution_id # NoId THEN resolution_id ELSE @,
               !.selected_milestone_index = IF milestone_index # NoIndex THEN milestone_index ELSE @,
               !.edit_mode = FALSE ]

Init ==
    /\ resolutions = <<>>
    /\ nextId = 1
    /\ pre = <<>>
    /\ call = NoCall
    /\ outcome = "ok"
    /\ ret = None
    /\ nops = 0
    /\ file = Absent
    /\ written = HoldsNothing
    /\ session = InitialSession
    /\ asked = NoId

\* The bookkeeping every call shares.
Called(op, rid, idx, arg) ==
    /\ nops < MaxOps
    /\ nops' = nops + 1
    /\ pre' = resolutions
    /\ call' = [op |-> op, id |-> rid, idx |-> idx, arg |-> arg]
    /\ asked' = asked

\* A call of a domain function by itself: no save, no navigation.
FunctionOnly == UNCHANGED <<file, written, session>>

\* The form's validation with the milestone check left out.
FormValid_title_only(title, m) == Truthy(title)

\* "if not title ... elif not all([m1, m2, m3, m4]) ... else": whether the
\* submitted form passes validation.
FormValid(title, m) ==
    IF ~Truthy(title) THEN FALSE
    ELSE IF ~(\A k \in 1 .. NumMilestones : Truthy(m[k])) THEN FALSE
    ELSE TRUE

\* The create operation as the create form performs it: validation,
\* create_resolution, append.  (The handler as a whole, with its save_data
\* and navigate_to, is ClickCreateResolution.)
SubmitCreateForm(title, importance, m) ==
    /\ Called("create", nextId, importance, <<title, m>>)
    /\ IF ~FormValid(title, m)
       THEN /\ outcome' = "invalid"
            /\ ret' = None
            /\ UNCHANGED <<resolutions, nextId>>
       ELSE LET new_resolution ==
                    create_resolution(nextId, title, FormDate, FormTarget, FormReason,
                                      importance, <<m[1], m[2], m[3], m[4]>>)
            IN  /\ resolutions' = Append(resolutions, new_resolution)
                /\ nextId' = nextId + 1
                /\ ret' = new_resolution
                /\ outcome' = "ok"
    /\ FunctionOnly

UpdateResolution(rid, k) ==
    /\ Called("update", rid, k, Patches[k])
    /\ resolutions' = update_resolution(resolutions, rid, Patches[k])
    /\ outcome' = "ok"
    /\ ret' = None
    /\ UNCHANGED nextId
    /\ FunctionOnly

DeleteResolution(rid) ==
    /\ Called("delete", rid, 0, None)
    /\ resolutions' = delete_resolution(resolutions, rid)
    /\ outcome' = "ok"
    /\ ret' = None
    /\ UNCHANGED nextId
    /\ FunctionOnly

GetResolutionById(rid) ==
    /\ Called("find", rid, 0, None)
    /\ ret' = get_resolution_by_id(resolutions, rid)
    /\ outcome' = "ok"
    /\ UNCHANGED <<resolutions, nextId>>
    /\ FunctionOnly

MarkMilestoneComplete(rid, idx, completed) ==
    /\ Called("mark", rid, idx, completed)
    /\ LET r == mark_milestone_complete(resolutions, rid, idx, completed)
       IN  /\ resolutions' = r.coll
           /\ outcome' = IF r.fault THEN "fault" ELSE "ok"
    /\ ret' = None
    /\ UNCHANGED nextId
    /\ FunctionOnly

AddMilestoneNote(rid, idx, note) ==
    /\ Called("note", rid, idx, note)
    /\ LET r == add_milestone_note(resolutions, rid, idx, note)
       IN  /\ resolutions' = r.coll
           /\ outcome' = IF r.fault THEN "fault" ELSE "ok"
    /\ ret' = None
    /\ UNCHANGED nextId
    /\ FunctionOnly

GetTopResolutions(n) ==
    /\ Called("top", 0, n, None)
    /\ ret' = get_top_resolutions(resolutions, n)
    /\ outcome' = "ok"
    /\ UNCHANGED <<resolutions, nextId>>
    /\ FunctionOnly

Next ==
    \/ \E t \in FormTitles, m \in FormMilestones : SubmitCreateForm(t, MaxImportance, m)
    \/ \E rid \in Ids, k \in DOMAIN Patches : UpdateResolution(rid, k)
    \/ \E rid \in Ids : DeleteResolution(rid)
    \/ \E rid \in Ids : GetResolutionById(rid)
    \/ \E rid \in Ids, idx \in Indexes, c \in BOOLEAN : MarkMilestoneComplete(rid, idx, c)
    \/ \E rid \in Ids, idx \in Indexes, note \in Notes : AddMilestoneNote(rid, idx, note)
    \/ \E n \in TopCounts : GetTopResolutions(n)

Spec == Init /\ [][Next]_vars

\* ------------------------------------- get_top_resolutions on drawn inputs

\* A resolution as the create form builds it, with the given importance,
\* either untouched or with its four milestones completed one by one.
SeedResolution(uid, importance, done) ==
    LET r == create_resolution(uid, "Run", FormDate, FormTarget, FormReason,
                               importance, <<"A", "B", "C", "D">>)
    IN  IF done
        THEN [r EXCEPT !.milestones = List([k \in DOMAIN @ |-> [@[k] EXCEPT !.completed = TRUE]]),
                       !.achieved = TRUE]
        ELSE r

\* The importances drawn for the collections handed to get_top_resolutions.
TopImportances == {MinImportance, 3, MaxImportance}

\* The collections of at most MaxTop such resolutions, ids in creation order.
TopSeeds ==
    UNION { { List([i \in 1 .. n |-> SeedResolution(i, imp[i], done[i])]) :
                imp \in [1 .. n -> TopImportances], done \in [1 .. n -> BOOLEAN] } :
            n \in 0 .. MaxTop }

\* One call of get_top_resolutions on a drawn collection.
TopInit ==
    /\ resolutions \in TopSeeds
    /\ nextId = Len(resolutions) + 1
    /\ pre = resolutions
    /\ call = NoCall
    /\ outcome = "ok"
    /\ ret = None
    /\ nops = MaxOps - 1
    /\ file = Absent
    /\ written = HoldsNothing
    /\ session = InitialSession
    /\ asked = NoId

TopNext == \E n \in TopCounts : GetTopResolutions(n)

TopSpec == TopInit /\ [][TopNext]_vars

\* ------------------------------------------------- the store on drawn inputs

\* The resolutions the domain operations leave behind, by kind: 1 as
\* created, 2 with every milestone completed, 3 with one milestone completed
\* and annotated, 4 with its milestones replaced by a patch.
StoreVariant(uid, kind) ==
    LET fresh == SeedResolution(uid, MaxImportance, FALSE) IN
    IF kind = 1 THEN fresh
    ELSE IF kind = 2 THEN SeedResolution(uid, MinImportance, TRUE)
    ELSE IF kind = 3 THEN
        add_milestone_note(mark_milestone_complete(<<fresh>>, uid, 1, TRUE).coll,
                           uid, 1, "tip").coll[1]
    ELSE update_resolution(<<fresh>>, uid, Patches[4])[1]

\* The collections of at most MaxStore such resolutions.
StoreSeeds ==
    UNION { { List([i \in 1 .. n |-> StoreVariant(i, kind[i])]) : kind \in [1 .. n -> 1 .. 4] } :
            n \in 0 .. MaxStore }

\* What the data file may hold without save_data having written it: nothing
\* (an empty file), the text {not json, the text {"a": 1}, null, 5, [1, 2],
\* bytes that are no text, and [] followed by a stray word.
ForeignFiles ==
    << Text(<<>>),
       Text(<<Tok("{"), Tok("bad")>>),
       Text(<<Tok("{"), TokStr("a"), Tok(":"), TokNum(1), Tok("}")>>),
       Text(<<Tok("null")>>),
       Text(<<TokNum(5)>>),
       Text(<<Tok("["), TokNum(1), Tok(","), TokNum(2), Tok("]")>>),
       Bytes,
       Text(<<Tok("["), Tok("]"), Tok("bad")>>) >>

\* A session holding a drawn collection, the data file not yet there; two
\* store operations follow.
StoreInit ==
    /\ resolutions \in StoreSeeds
    /\ nextId = Len(resolutions) + 1
    /\ pre = resolutions
    /\ call = NoCall
    /\ outcome = "ok"
    /\ ret = None
    /\ nops = MaxOps - 2
    /\ file = Absent
    /\ written = HoldsNothing
    /\ session = InitialSession
    /\ asked = NoId

\* The bookkeeping the store operations share.
Stored(op, idx, arg) ==
    /\ Called(op, 0, idx, arg)
    /\ UNCHANGED <<nextId, session>>

\* The specification follows one write of the data file and the loads
\* around it: a write starts only while the file is not there yet.
FirstWrite == file = Absent

\* save_data(st.session_state.resolutions) run to its end.
SaveData ==
    /\ FirstWrite
    /\ Stored("save", 0, None)
    /\ file' = save_data(resolutions)
    /\ written' = Holds(resolutions)
    /\ outcome' = "ok"
    /\ ret' = None
    /\ UNCHANGED resolutions

\* save_data interrupted: open(DATA_FILE, "w") has emptied the file and only
\* the first k tokens of the dump reached it, the last of them cut short
\* or not.
InterruptedSave ==
    /\ FirstWrite
    /\ nops < MaxOps
    /\ LET dump == DumpList(resolutions) IN
       \E k \in 0 .. Len(dump) - 1, cut \in BOOLEAN :
        /\ Stored("save", k, cut)
        /\ file' = Text(SubSeq(dump, 1, k) \o (IF cut THEN <<Tok("bad")>> ELSE <<>>))
        /\ written' = HoldsNothing
        /\ outcome' = "fault"
        /\ ret' = None
        /\ UNCHANGED resolutions

\* The file is replaced or damaged from outside the program.
ForeignWrite(c) ==
    /\ FirstWrite
    /\ Stored("foreign", c, None)
    /\ file' = ForeignFiles[c]
    /\ written' = HoldsNothing
    /\ outcome' = "ok"
    /\ ret' = None
    /\ UNCHANGED resolutions

\* st.session_state.resolutions = load_data()
LoadData(decodable) ==
    /\ Stored("load", 0, decodable)
    /\ LET r == load_data(file, decodable) IN
       IF r.raised # "none"
       THEN /\ outcome' = "fault"
            /\ ret' = None
            /\ UNCHANGED resolutions
       ELSE /\ outcome' = "ok"
            /\ ret' = r.data
            /\ resolutions' = r.data
    /\ UNCHANGED <<file, written>>

StoreNext ==
    \/ SaveData
    \/ InterruptedSave
    \/ \E c \in DOMAIN ForeignFiles : ForeignWrite(c)
    \/ \E decodable \in BOOLEAN : LoadData(decodable)

StoreSpec == StoreInit /\ [][StoreNext]_vars

\* ------------------------------------------------------ the pages, by click

\* main routes an authenticated session to the page named in the session.
OnPage(page) == session.authenticated /\ session.page = page

\* "if not resolution": whether the selected resolution is in the collection.
Found == FirstWithId(resolutions, session.selected_resolution_id) # 0

\* show_individual_resolution_page past its edit_mode check: the milestone
\* Edit buttons, Edit Resolution and Delete Resolution are on the page.
OnResolutionPage == OnPage("resolution") /\ Found /\ ~session.edit_mode

\* The confirm dialog with Yes, Delete and Cancel is on the page.
PromptShowing == OnResolutionPage /\ session.confirm_delete

\* The ids issued in a session: those of the saved collection and one more.
PageIds == 1 .. MaxStore + 1

\* The ids a list of resolutions shows View buttons for.
ViewIds(rs) == { rs[i].id : i \in DOMAIN rs }

\* The collection after the rerun that follows a click: show_home_page
\* reloads it from the file, the other pages keep the session's.
Rendered(s, rs, f) ==
    IF s.authenticated /\ s.page = "home" THEN load_data(f, TRUE).data ELSE rs

\* A session that has not logged in yet; the data file holds a saved
\* collection of at most MaxStore resolutions, or is not there.
PageInit ==
    /\ \E rs \in StoreSeeds :
        /\ file = (IF rs = <<>> THEN Absent ELSE save_data(rs))
        /\ written = (IF rs = <<>> THEN HoldsNothing ELSE Holds(rs))
        /\ resolutions = load_data(file, TRUE).data
        /\ nextId = Len(rs) + 1
    /\ pre = <<>>
    /\ call = NoCall
    /\ outcome = "ok"
    /\ ret = None
    /\ nops = 0
    /\ session = InitialSession
    /\ asked = NoId

\* The bookkeeping the clicks share: which button, on which resolution.
Clicked(button, rid) ==
    /\ call' = [op |-> button, id |-> rid, idx |-> 0, arg |-> None]
    /\ UNCHANGED <<pre, outcome, ret, nops>>

\* A click that only navigates: the session changes, then the page is drawn.
Navigated(s) ==
    /\ session' = s
    /\ resolutions' = Rendered(s, resolutions, file)
    /\ UNCHANGED <<file, written, nextId, asked>>

\* show_login_page: Login, with a password that checks or not.
ClickLogin(ok) ==
    /\ ~session.authenticated \/ session.page = "login"
    /\ Clicked("Login", NoId)
    /\ IF ok
       THEN /\ session' = [session EXCEPT !.authenticated = TRUE, !.page = "home"]
            /\ resolutions' = load_data(file, TRUE).data
       ELSE UNCHANGED <<session, resolutions>>
    /\ UNCHANGED <<file, written, nextId, asked>>

\* View on the home page (the top three) or on the list of all resolutions.
ClickView(rid) ==
    /\ \/ OnPage("home") /\ rid \in ViewIds(get_top_resolutions(resolutions, 3))
       \/ OnPage("all") /\ rid \in ViewIds(resolutions)
    /\ Clicked("View", rid)
    /\ Navigated(navigate_to(session, "resolution", rid, NoIndex))

\* All Resolutions on the home page.
ClickAllResolutions ==
    /\ OnPage("home")
    /\ Clicked("All Resolutions", NoId)
    /\ Navigated(navigate_to(session, "all", NoId, NoIndex))

\* Home on the list of all resolutions or on a resolution's page.
ClickHome ==
    /\ OnPage("all") \/ (OnPage("resolution") /\ Found)
    /\ Clicked("Home", NoId)
    /\ Navigated(navigate_to(session, "home", NoId, NoIndex))

\* Create New Resolution on the list of all resolutions.
ClickCreateNewResolution ==
    /\ OnPage("all")
    /\ Clicked("Create New Resolution", NoId)
    /\ Navigated(navigate_to(session, "create", NoId, NoIndex))

\* Back to All Resolutions on the create page.
ClickBackToAllResolutions ==
    /\ OnPage("create")
    /\ Clicked("Back to All Resolutions", NoId)
    /\ Navigated(navigate_to(session, "all", NoId, NoIndex))

\* Create Resolution on the create page: validation, create_resolution,
\* append, save_data, navigate_to("all").  The collection is kept to
\* MaxStore resolutions and the ids issued to PageIds.
ClickCreateResolution(title, importance, m) ==
    /\ OnPage("create")
    /\ Clicked("Create Resolution", nextId)
    /\ IF ~FormValid(title, m)
       THEN UNCHANGED <<resolutions, nextId, file, written, session>>
       ELSE /\ Len(resolutions) < MaxStore
            /\ nextId \in PageIds
            /\ resolutions' = Append(resolutions,
                   create_resolution(nextId, title, FormDate, FormTarget, FormReason,
                                     importance, <<m[1], m[2], m[3], m[4]>>))
            /\ nextId' = nextId + 1
            /\ file' = save_data(resolutions')
            /\ written' = Holds(resolutions')
            /\ session' = navigate_to(session, "all", NoId, NoIndex)
    /\ UNCHANGED asked

\* Edit beside milestone i of the resolution shown.
ClickEditMilestone(i) ==
    /\ OnResolutionPage
    /\ i + 1 \in DOMAIN get_resolution_by_id(resolutions, session.selected_resolution_id).milestones
    /\ Clicked("Edit", session.selected_resolution_id)
    /\ Navigated(navigate_to(session, "milestone", session.selected_resolution_id, i))

\* Back to Resolution on a milestone's page.
ClickBackToResolution ==
    /\ OnPage("milestone") /\ Found /\ session.selected_milestone_index # NoIndex
    /\ Clicked("Back to Resolution", session.selected_resolution_id)
    /\ Navigated(navigate_to(session, "resolution", session.selected_resolution_id, NoIndex))

\* Edit Resolution on a resolution's page.
ClickEditResolution ==
    /\ OnResolutionPage
    /\ Clicked("Edit Resolution", session.selected_resolution_id)
    /\ Navigated([session EXCEPT !.edit_mode = TRUE])

\* Cancel in the edit form.
ClickCancelEdit ==
    /\ OnPage("resolution") /\ Found /\ session.edit_mode
    /\ Clicked("Cancel edit", session.selected_resolution_id)
    /\ Navigated([session EXCEPT !.edit_mode = FALSE])

\* Delete Resolution on a resolution's page: the confirmation is now pending,
\* and it was asked for the resolution shown.
ClickDeleteResolution ==
    /\ OnResolutionPage
    /\ Clicked("Delete Resolution", session.selected_resolution_id)
    /\ session' = [session EXCEPT !.confirm_delete = TRUE]
    /\ asked' = session.selected_resolution_id
    /\ UNCHANGED <<resolutions, file, written, nextId>>

\* Yes, Delete in the confirm dialog: delete_resolution on the resolution
\* shown, save_data, confirm_delete = False, navigate_to("all").
ClickYesDelete ==
    /\ PromptShowing
    /\ Clicked("Yes, Delete", session.selected_resolution_id)
    /\ resolutions' = delete_resolution(resolutions, session.selected_resolution_id)
    /\ file' = save_data(resolutions')
    /\ written' = Holds(resolutions')
    /\ session' = navigate_to([session EXCEPT !.confirm_delete = FALSE], "all", NoId, NoIndex)
    /\ UNCHANGED <<nextId, asked>>

\* Cancel in the confirm dialog.
ClickCancelDelete ==
    /\ PromptShowing
    /\ Clicked("Cancel", session.selected_resolution_id)
    /\ Navigated([session EXCEPT !.confirm_delete = FALSE])

PageNext ==
    \/ \E ok \in BOOLEAN : ClickLogin(ok)
    \/ \E rid \in PageIds : ClickView(rid)
    \/ ClickAllResolutions
    \/ ClickHome
    \/ ClickCreateNewResolution
    \/ ClickBackToAllResolutions
    \/ \E title \in FormTitles, importance \in {MinImportance, MaxImportance}, m \in FormMilestones :
          ClickCreateResolution(title, importance, m)
    \/ \E i \in 0 .. NumMilestones - 1 : ClickEditMilestone(i)
    \/ ClickBackToResolution
    \/ ClickEditResolution
    \/ ClickCancelEdit
    \/ ClickDeleteResolution
    \/ ClickYesDelete
    \/ ClickCancelDelete

PageSpec == PageInit /\ [][PageNext]_vars

\* ------------------------------------------------------------------ claims

\* The resolution the last call addressed, as it was before the call and as
\* it is now (the operations never move a resolution).
Target == FirstWithId(pre, call.id)
Present == Target # 0
\* All the milestones of a resolution are completed.
AllCompleted(r) == \A k \in DOMAIN r.milestones : r.milestones[k].completed
\* The milestone indexes the data model names, 0 .. 3.
ValidIndexes == 0 .. NumMilestones - 1

\* C1: in every reachable state every resolution's stored achieved flag
\* equals the conjunction of its milestones' completed flags.
C1_AchievedIsDerived ==
    \A i \in DOMAIN resolutions : resolutions[i].achieved = AllCompleted(resolutions[i])

\* C2: in every reachable state every resolution has exactly 4 milestones.
C2_ExactlyFourMilestones ==
    \A i \in DOMAIN resolutions : Len(resolutions[i].milestones) = NumMilestones

C4_CreateBuildsFourOpenMilestones ==
    (call.op = "create" /\ outcome = "ok")
    => /\ Len(ret.milestones) = NumMilestones
       /\ \A k \in 1 .. NumMilestones :
            /\ ret.milestones[k].description = call.arg[2][k]
            /\ ret.milestones[k].completed = FALSE
            /\ ret.milestones[k].note = ""
       /\ ret.achieved = FALSE
       /\ resolutions = Append(pre, ret)

\* C4 witness: a second resolution was created with descriptions A, B, C, D.
C4_Witness ==
    /\ call.op = "create"
    /\ outcome = "ok"
    /\ call.arg[2] = <<"A", "B", "C", "D">>
    /\ Len(resolutions) = 2
    /\ resolutions[2] = ret

\* C5: update_resolution(collection, id, patch) with id present sets, in the
\* first resolution with that id, every key of patch other than "id" to the
\* patch's value and leaves every other key, the id itself, every other
\* resolution and the order of the collection as they were.
C5_UpdateChangesOnlyPatchedFields ==
    (call.op = "update" /\ Present)
    => LET was   == pre[Target]
           now   == resolutions[Target]
           named == DOMAIN call.arg \ {"id"}
       IN  /\ Len(resolutions) = Len(pre)
           /\ now.id = was.id
           /\ DOMAIN now = DOMAIN was \cup named
           /\ \A key \in named : now[key] = call.arg[key]
           /\ \A key \in DOMAIN was \ named : now[key] = was[key]
           /\ \A j \in DOMAIN pre : j # Target => resolutions[j] = pre[j]

\* C5 witness: a patch that names "id" and "title" was applied to the second
\* of two resolutions, whose title changed.
C5_Witness ==
    /\ call.op = "update"
    /\ Present
    /\ Target = 2
    /\ "id" \in DOMAIN call.arg
    /\ call.arg.id # call.id
    /\ resolutions[2].title # pre[2].title
    /\ resolutions[2].title = call.arg.title

\* C6: every mark_milestone_complete or add_milestone_note on a resolution
\* present in the collection with an index outside 0 .. 3 ends in a fault
\* and modifies nothing.
C6_IndexOutsideRangeFaults ==
    (call.op \in {"mark", "note"} /\ Present /\ call.idx \notin ValidIndexes)
    => (outcome = "fault" /\ resolutions = pre)

\* C7: a create submitted with an empty title, or with fewer than 4
\* milestone descriptions filled in, ends in the validation error shown to
\* the caller; no resolution is produced and the collection is as before.
C7_InvalidCreateIsRejected ==
    ( /\ call.op = "create"
      /\ \/ call.arg[1] = ""
         \/ Cardinality({k \in 1 .. NumMilestones : call.arg[2][k] # ""}) < NumMilestones )
    => (outcome = "invalid" /\ ret = None /\ resolutions = pre /\ nextId = call.id)

\* C7 witness: a create with a title but a blank milestone was rejected on a
\* collection that already holds a resolution.
C7_Witness ==
    /\ call.op = "create"
    /\ call.arg[1] # ""
    /\ call.arg[2] = <<"A", "", "C", "D">>
    /\ outcome = "invalid"
    /\ Len(resolutions) = 1

\* C8: update, delete, mark and note called with an id no resolution has
\* return the collection as it was and raise nothing, whatever the patch,
\* index or value.
C8_UnknownIdIsNoOp ==
    (call.op \in {"update", "delete", "mark", "note"} /\ ~Present)
    => (resolutions = pre /\ outcome = "ok")

\* C8 witness: a note for index 4 of an unknown id on a non-empty collection.
C8_Witness ==
    /\ call.op = "note"
    /\ ~Present
    /\ call.idx = NumMilestones
    /\ Len(pre) = 2
    /\ resolutions = pre

\* The positions of pre that delete keeps, and the k-th of them.
Kept == {i \in DOMAIN pre : pre[i].id # call.id}
KthKept(k) == CHOOSE i \in Kept : Cardinality({j \in Kept : j <= i}) = k

\* C9: after delete_resolution(collection, id), get_resolution_by_id finds
\* nothing for id, and the collection holds exactly the resolutions with
\* another id, in their original order.
C9_DeleteRemovesId ==
    (call.op = "delete")
    => /\ get_resolution_by_id(resolutions, call.id) = None
       /\ Len(resolutions) = Cardinality(Kept)
       /\ \A k \in DOMAIN resolutions : resolutions[k] = pre[KthKept(k)]

\* C9 witness: the first of three resolutions was deleted.
C9_Witness ==
    /\ call.op = "delete"
    /\ Len(pre) = 3
    /\ pre[1].id = call.id
    /\ Len(resolutions) = 2
    /\ resolutions[1] = pre[2]
    /\ resolutions[2] = pre[3]

\* The position in the input collection of the k-th resolution returned.
PosOf(k) == FirstWithId(pre, ret[k].id)

\* C10: get_top_resolutions(collection, n) with n >= 0 returns
\* min(n, |collection|) resolutions of the collection, each once, in
\* non-increasing importance; of two returned resolutions of equal
\* importance the one earlier in the collection comes first; no resolution
\* left out is more important than a returned one; achieved resolutions are
\* returned like the others; the collection itself is as before.
C10_TopNIsStablePrefixOfRanking ==
    (call.op = "top" /\ call.idx >= 0)
    => /\ Len(ret) = (IF call.idx < Len(pre) THEN call.idx ELSE Len(pre))
       /\ \A k \in DOMAIN ret : PosOf(k) # 0 /\ ret[k] = pre[PosOf(k)]
       /\ \A k, l \in DOMAIN ret : k # l => PosOf(k) # PosOf(l)
       /\ \A k, l \in DOMAIN ret : k < l => ret[k].importance >= ret[l].importance
       /\ \A k, l \in DOMAIN ret :
            (k < l /\ ret[k].importance = ret[l].importance) => PosOf(k) < PosOf(l)
       /\ \A j \in DOMAIN pre :
            (\A k \in DOMAIN ret : PosOf(k) # j)
            => \A k \in DOMAIN ret : pre[j].importance <= ret[k].importance
       /\ resolutions = pre

\* C10 witness: the top 2 of three resolutions, the least important first in
\* the collection and left out, the two returned tied, the first of them
\* achieved.
C10_Witness ==
    /\ call.op = "top"
    /\ call.idx = 2
    /\ Len(pre) = 3
    /\ Len(ret) = 2
    /\ ret[1] = pre[2]
    /\ ret[2] = pre[3]
    /\ ret[1].importance = ret[2].importance
    /\ pre[1].importance < ret[2].importance
    /\ ret[1].achieved

\* C11: load_data never faults, and it returns the empty list whenever the
\* file is absent, empty or holds anything but the complete dump of a
\* collection.
C11_LoadNeverFaults ==
    (call.op = "load")
    => /\ outcome = "ok"
       /\ ~written.held => ret = <<>>

\* C12: load_data right after a complete save_data of a collection gives a
\* collection with the same total of stars.
C12_StarsSurviveSaveAndLoad ==
    (call.op = "load" /\ written.held)
    => /\ outcome = "ok"
       /\ calculate_total_stars(ret) = calculate_total_stars(written.coll)

\* C12 witness: two resolutions, one of them with three patched-in
\* milestones, four stars in all, saved and loaded again.
C12_Witness ==
    /\ call.op = "load"
    /\ written.held
    /\ outcome = "ok"
    /\ Len(written.coll) = 2
    /\ Len(written.coll[2].milestones) = 3
    /\ calculate_total_stars(written.coll) = 4
    /\ calculate_total_stars(resolutions) = 4

\* C13: the confirm dialog shows only for the resolution on whose page
\* Delete Resolution was last clicked, and Yes, Delete removes no other.
C13_PromptBelongsToAskedResolution ==
    /\ PromptShowing => session.selected_resolution_id = asked
    /\ call.op = "Yes, Delete" => call.id = asked

====
